---- MODULE Spec2Model ----
(***************************************************************************)
(* Back-Maxwell rangeproofs with ring size m = 3 (dalek-rangeproofs,       *)
(* src/lib.rs): RangeProof::create_vartime, RangeProof::create,            *)
(* RangeProof::verify and base3_digits.                                    *)
(*                                                                         *)
(* Representation.                                                         *)
(*  - A Scalar is a residue mod ELL.  The group order of the code is the   *)
(*    253-bit prime l of Curve25519; the model scales it to a small prime. *)
(*  - A DecafPoint is a pair <<a, b>> standing for a*G + b*H: the two      *)
(*    basepoints are independent generators, as the code assumes.          *)
(*  - A u64 is four 16-bit limbs, least significant first, so that x % 3   *)
(*    and x / 3 are computed on the full 64-bit width.                     *)
(*  - Sha512 keeps the compressed points fed to it and a chaining value    *)
(*    that a fixed mixing function updates with each of them.              *)
(*  - The Rng handed to the provers is a tape of scalars read cyclically.  *)
(***************************************************************************)
EXTENDS Integers, Sequences, FiniteSets, TLC

(* ----------------------------- bounds ---------------------------------- *)

\* Bounds n for which the provers are explored under every rng tape.
MaxN == 2

\* Length of the rng tape (the tape is read cyclically).
TapeLen == 2

(* --------------------------- constants --------------------------------- *)

RANGEPROOF_MAX_N == 41

\* Length of the digit array of base3_digits ([u8; 41], for i in 0..41).
DIGITS == 41

\* Order of the scalar field (scaled).
ELL == 5

LimbBase == 2^16

(* ---------------------------- Scalar ----------------------------------- *)

Scalar == 0..(ELL - 1)

ScalarZero == 0

ScalarAdd(a, b) == (a + b) % ELL

ScalarSub(a, b) == (a + ELL - b) % ELL

ScalarNeg(a) == (ELL - a) % ELL

ScalarMul(a, b) == (a * b) % ELL

\* Scalar::multiply_add(a, b, c) = a*b + c
MultiplyAdd(a, b, c) == (a * b + c) % ELL

RECURSIVE ScalarPow(_, _)
ScalarPow(a, e) == IF e = 0 THEN 1 % ELL ELSE ScalarMul(a, ScalarPow(a, e - 1))

\* Scalar::invert: a^(l-2); the inverse of a nonzero scalar, and 0 for 0.
Invert(a) == ScalarPow(a, ELL - 2)

(* --------------------------- DecafPoint -------------------------------- *)

Point == Scalar \X Scalar

Identity == <<0, 0>>

\* G.basepoint()
Gbase == <<1, 0>>

\* The second basepoint H handed to the provers and the verifier.
Hbase == <<0, 1>>

PointAdd(P, Q) == <<ScalarAdd(P[1], Q[1]), ScalarAdd(P[2], Q[2])>>

PointSub(P, Q) == <<ScalarSub(P[1], Q[1]), ScalarSub(P[2], Q[2])>>

\* &P * &s
PointMul(s, P) == <<ScalarMul(s, P[1]), ScalarMul(s, P[2])>>

\* G * &s on the basepoint table
BaseMul(s) == PointMul(s, Gbase)

\* vartime::k_fold_scalar_mult(&[a, b], &[P, Q]) = a*P + b*Q
KFoldScalarMult(a, b, P, Q) == PointAdd(PointMul(a, P), PointMul(b, Q))

\* P.compress(): the canonical encoding of a point
Compress(P) == P[1] + ELL * P[2]

(* ----------------------------- Sha512 ---------------------------------- *)

\* The compression of the chaining value d with the block c.
DigestMix(d, c) == (d * d + 3 * d * c + c * c * c + 5 * c + 7) % 251

\* Sha512::default(): nothing fed, the initial chaining value
Sha512Default == [input |-> <<>>, state |-> 1]

\* hash.input(P.compress().as_bytes())
Sha512Input(h, P) ==
    [input |-> Append(h.input, Compress(P)),
     state |-> DigestMix(h.state, Compress(P))]

\* The digest of what was fed to h.
Digest(h) == h.state

\* Scalar::from_hash(hash): the digest reduced mod l
FromHash(h) == Digest(h) % ELL

\* Scalar::hash_from_bytes::<Sha512>(P.compress().as_bytes())
HashFromBytes(P) == FromHash(Sha512Input(Sha512Default, P))

\* What a hash was fed and the scalar it was reduced to.
Hashed(h) == [input |-> h.input, out |-> FromHash(h)]

(* ------------------------------- u64 ----------------------------------- *)

U64Zero == <<0, 0, 0, 0>>

\* The u64 with value m, for 0 <= m < 2^16
U64Small(m) == <<m, 0, 0, 0>>

\* x / 3 and x % 3 on a u64, by long division over the limbs
DivRem3(x) ==
    LET q4 == x[4] \div 3
        c3 == (x[4] % 3) * LimbBase + x[3]
        q3 == c3 \div 3
        c2 == (c3 % 3) * LimbBase + x[2]
        q2 == c2 \div 3
        c1 == (c2 % 3) * LimbBase + x[1]
        q1 == c1 \div 3
    IN  [quot |-> <<q1, q2, q3, q4>>, rem |-> c1 % 3]

\* One iteration of base3_digits: yields the digit and the new x.
\* (mutant of Base3Step: the digit is taken after the division)
Base3Step_remAfterDiv(x) ==
    LET dr == DivRem3(x)
    IN  [digit |-> DivRem3(dr.quot).rem, x |-> dr.quot]

Base3Step(x) ==
    LET dr == DivRem3(x)
    IN  [digit |-> dr.rem, x |-> dr.quot]

\* let rem = x % 3; digits[i] = rem as u8; x = x / 3;
\* (mutant of Base3Iter: x is not divided)
Base3Iter_keepsX(st) ==
    LET s == Base3Step(st.x)
    IN  [x |-> st.x, digits |-> Append(st.digits, s.digit)]

Base3Iter(st) ==
    LET s == Base3Step(st.x)
    IN  [x |-> s.x, digits |-> Append(st.digits, s.digit)]

\* Up to m iterations of for i in 0..41 { .. }, evaluated by halves; i is
\* the number of digits written.
RECURSIVE Base3Loop(_, _)
Base3Loop(st, m) ==
    IF Len(st.digits) = DIGITS THEN st
    ELSE IF m = 1 THEN Base3Iter(st)
    ELSE Base3Loop(Base3Loop(st, m \div 2), m - (m \div 2))

\* fn base3_digits(mut x: u64) -> [u8; 41]; digits[i] of the code is
\* base3_digits(x)[i + 1] here.
base3_digits(x) == Base3Loop([x |-> x, digits |-> <<>>], DIGITS).digits

\* Scalar::from_u64(x)
FromU64(x) ==
    LET b == LimbBase % ELL
        a4 == x[4] % ELL
        a3 == (a4 * b + x[3]) % ELL
        a2 == (a3 * b + x[2]) % ELL
    IN  (a2 * b + x[1]) % ELL

(* ------------------------------- Rng ----------------------------------- *)

\* The value of the (j+1)-th call of Scalar::random(&mut csprng) from now.
RandomAt(csprng, j) == csprng.tape[((csprng.pos + j) % Len(csprng.tape)) + 1]

\* The frame after the calls of Scalar::random named by roles, in order.
Drawn(st, roles) ==
    [st EXCEPT !.csprng.pos = @ + Len(roles),
               !.draws = @ \o [j \in 1..Len(roles) |->
                                 [role |-> roles[j], i |-> st.i,
                                  val |-> RandomAt(st.csprng, j - 1)]]]

(* -------------------- subtle: constant-time selection ------------------- *)

\* byte_is_nonzero(b)
ByteIsNonzero(b) == IF b # 0 THEN 1 ELSE 0

\* bytes_equal_ct(a, b)
BytesEqualCt(a, b) == IF a = b THEN 1 ELSE 0

\* dst.conditional_assign(&src, mask): the new value of dst
ConditionalAssign(dst, src, mask) == IF mask # 0 THEN src ELSE dst

(* ------------------------- the provers' frame --------------------------- *)

NoProof == [e_0 |-> ScalarZero, C |-> <<>>, s_1 |-> <<>>, s_2 |-> <<>>]

NoOutput == [proof |-> NoProof, commitment |-> Identity, blinding |-> ScalarZero]

\* The frame of a prover that has not been called.
IdleFrame(csprng) ==
    [fn |-> "none", pc |-> "idle", ret |-> "none", n |-> 0, value |-> U64Zero,
     v |-> <<>>, i |-> 0, mi_H |-> Identity,
     R |-> <<>>, C |-> <<>>, k |-> <<>>, r |-> <<>>,
     s_1 |-> <<>>, s_2 |-> <<>>, e_1 |-> <<>>, e_2 |-> <<>>,
     e_0_hash |-> Sha512Default, e_0 |-> ScalarZero,
     csprng |-> csprng, draws |-> <<>>, out |-> NoOutput]

\* if n > RANGEPROOF_MAX_N { panic!(..) }, the first statement of create,
\* create_vartime and verify
\* (mutant of BoundTooLarge: RANGEPROOF_MAX_N itself is refused)
BoundTooLarge_geq(n) == n >= RANGEPROOF_MAX_N

BoundTooLarge(n) == n > RANGEPROOF_MAX_N

\* for i in n..41 { if v[i] != 0 { return None; } }
\* (mutant of OutOfRange: the digit at index n itself is not looked at)
OutOfRange_fromNplus1(v, n) == \E i \in (n + 1)..(DIGITS - 1) : v[i + 1] # 0

OutOfRange(v, n) == \E i \in n..(DIGITS - 1) : v[i + 1] # 0

\* The head of create and create_vartime: the bound check, the range check
\* and the allocation of the vectors.
CreateHead(fn, n, value, csprng) ==
    LET f0 == [IdleFrame(csprng) EXCEPT !.fn = fn, !.n = n, !.value = value]
    IN  IF BoundTooLarge(n)
        THEN [f0 EXCEPT !.pc = "returned", !.ret = "panic"]
        ELSE LET v == base3_digits(value)
             IN  IF OutOfRange(v, n)
                 THEN [f0 EXCEPT !.pc = "returned", !.ret = "None", !.v = v]
                 ELSE [f0 EXCEPT !.v = v,
                                 !.R = [j \in 1..n |-> Identity],
                                 !.C = [j \in 1..n |-> Identity],
                                 !.k = [j \in 1..n |-> ScalarZero],
                                 !.r = [j \in 1..n |-> ScalarZero],
                                 !.s_1 = [j \in 1..n |-> ScalarZero],
                                 !.s_2 = [j \in 1..n |-> ScalarZero],
                                 !.e_1 = [j \in 1..n |-> ScalarZero],
                                 !.e_2 = [j \in 1..n |-> ScalarZero],
                                 !.mi_H = Hbase,
                                 !.i = 0,
                                 !.pc = IF n > 0 THEN "pass1" ELSE "seal"]

\* panic!("Invalid digit {}", v[i]) and debug_assert!(v[i] == 0 || ...)
InvalidDigit(st) == [st EXCEPT !.pc = "returned", !.ret = "panic"]

\* The end of an iteration of a digit loop: mi_H <- 3 * mi_H, and either the
\* next iteration or the code after the loop.
\* (mutant of LoopEnd: mi_H is not added to mi2_H)
LoopEnd_doubled(st, mi2_H, after) ==
    [st EXCEPT !.mi_H = mi2_H,
               !.i = IF st.i + 1 < st.n THEN st.i + 1 ELSE 0,
               !.pc = IF st.i + 1 < st.n THEN st.pc ELSE after]

LoopEnd(st, mi2_H, after) ==
    [st EXCEPT !.mi_H = PointAdd(mi2_H, st.mi_H),
               !.i = IF st.i + 1 < st.n THEN st.i + 1 ELSE 0,
               !.pc = IF st.i + 1 < st.n THEN st.pc ELSE after]

\* The response for a zero digit: &k_j + &(&e * &(&k[i] * &e_2_inv)), with
\* (k_j, e) = (k_1, e_0) for s_1[i] and (k_2, e_1[i]) for s_2[i].
\* (mutant of ZeroDigitResponse: k[i] is not multiplied by the inverse)
ZeroDigitResponse_noInverse(k_j, e, k_i, e_2_inv) ==
    ScalarAdd(k_j, ScalarMul(e, k_i))

ZeroDigitResponse(k_j, e, k_i, e_2_inv) ==
    ScalarAdd(k_j, ScalarMul(e, ScalarMul(k_i, e_2_inv)))

(* --------------------------- create_vartime ----------------------------- *)

\* The calls of Scalar::random in an iteration of the first loop, by digit.
VartimePass1Draws(d) ==
    IF d = 1 THEN <<"k", "r", "s_2">>
    ELSE IF d = 2 THEN <<"k", "r">>
    ELSE <<"k">>

\* One iteration of the first loop of create_vartime.
CreateVartimePass1(st) ==
    LET idx == st.i + 1
        d == st.v[idx]
        mi_H == st.mi_H
        mi2_H == PointAdd(mi_H, mi_H)
        k_i == RandomAt(st.csprng, 0)
        r_i == RandomAt(st.csprng, 1)
        s2_i == RandomAt(st.csprng, 2)
        C_1 == PointAdd(BaseMul(r_i), mi_H)
        e1_1 == HashFromBytes(BaseMul(k_i))
        e2_1 == HashFromBytes(KFoldScalarMult(s2_i, ScalarNeg(e1_1), Gbase,
                                              PointSub(C_1, mi2_H)))
        C_2 == PointAdd(BaseMul(r_i), mi2_H)
        e2_2 == HashFromBytes(BaseMul(k_i))
        dr == Drawn(st, VartimePass1Draws(d))
    IN  CASE d = 0 ->
               LoopEnd([dr EXCEPT !.k[idx] = k_i, !.R[idx] = BaseMul(k_i)],
                       mi2_H, "seal")
          [] d = 1 ->
               LoopEnd([dr EXCEPT !.k[idx] = k_i, !.r[idx] = r_i, !.C[idx] = C_1,
                                  !.e_1[idx] = e1_1, !.s_2[idx] = s2_i,
                                  !.e_2[idx] = e2_1,
                                  !.R[idx] = PointMul(e2_1, C_1)],
                       mi2_H, "seal")
          [] d = 2 ->
               LoopEnd([dr EXCEPT !.k[idx] = k_i, !.r[idx] = r_i, !.C[idx] = C_2,
                                  !.e_2[idx] = e2_2,
                                  !.R[idx] = PointMul(e2_2, C_2)],
                       mi2_H, "seal")
          [] OTHER -> InvalidDigit(dr)

\* The calls of Scalar::random in an iteration of the second loop, by digit.
VartimePass2Draws(d) ==
    IF d = 0 THEN <<"k_1", "k_2">>
    ELSE IF d = 2 THEN <<"s_1">>
    ELSE <<>>

\* One iteration of the second loop of create_vartime.
CreateVartimePass2(st) ==
    LET idx == st.i + 1
        d == st.v[idx]
        mi_H == st.mi_H
        mi2_H == PointAdd(mi_H, mi_H)
        e_0 == st.e_0
        \* v[i] == 0
        k_1 == RandomAt(st.csprng, 0)
        e1_0 == HashFromBytes(KFoldScalarMult(k_1, e_0, Gbase, mi_H))
        k_2 == RandomAt(st.csprng, 1)
        e2_0 == HashFromBytes(KFoldScalarMult(k_2, e1_0, Gbase, mi2_H))
        e_2_inv == Invert(e2_0)
        r_0 == ScalarMul(e_2_inv, st.k[idx])
        \* v[i] == 2
        s1_2 == RandomAt(st.csprng, 0)
        Ci_minus_miH == PointSub(st.C[idx], mi_H)
        e1_2 == HashFromBytes(KFoldScalarMult(s1_2, ScalarNeg(e_0), Gbase,
                                              Ci_minus_miH))
        dr == Drawn(st, VartimePass2Draws(d))
    IN  CASE d = 0 ->
               LoopEnd([dr EXCEPT
                          !.e_1[idx] = e1_0, !.e_2[idx] = e2_0, !.r[idx] = r_0,
                          !.C[idx] = BaseMul(r_0),
                          !.s_1[idx] = ZeroDigitResponse(k_1, e_0, st.k[idx], e_2_inv),
                          !.s_2[idx] = ZeroDigitResponse(k_2, e1_0, st.k[idx], e_2_inv)],
                       mi2_H, "finish")
          [] d = 1 ->
               LoopEnd([dr EXCEPT
                          !.s_1[idx] = MultiplyAdd(e_0, st.r[idx], st.k[idx])],
                       mi2_H, "finish")
          [] d = 2 ->
               LoopEnd([dr EXCEPT
                          !.s_1[idx] = s1_2, !.e_1[idx] = e1_2,
                          !.s_2[idx] = MultiplyAdd(e1_2, st.r[idx], st.k[idx])],
                       mi2_H, "finish")
          [] OTHER -> LoopEnd(dr, mi2_H, "finish")

(* ------------------------------- create -------------------------------- *)

\* The calls of Scalar::random in an iteration of the first loop of create.
\* (mutant of CreatePass1Draws: r^i is drawn only for a nonzero digit)
CreatePass1Draws_branching(d) ==
    IF d = 0 THEN <<"k", "maybe_s2">> ELSE <<"k", "maybe_ri", "maybe_s2">>

CreatePass1Draws(d) == <<"k", "maybe_ri", "maybe_s2">>

\* The position of role among the calls of Scalar::random of an iteration.
DrawIndex(roles, role) == (CHOOSE j \in 1..Len(roles) : roles[j] = role) - 1

\* Which of mi_H and mi2_H the commitment to the digit d is made with:
\* which_mi_H = mi_H; which_mi_H.conditional_assign(&mi2_H, bytes_equal_ct(v[i], 2))
\* (mutant of WhichMiH: mi2_H is never selected)
WhichMiH_never2(d, mi_H, mi2_H) == mi_H

WhichMiH(d, mi_H, mi2_H) ==
    ConditionalAssign(mi_H, mi2_H, BytesEqualCt(d, 2))

\* The mask under which the second candidate of e_2^i (the hash of
\* s_2^i G - e_1^i (C^i - 2 m^i H)) is assigned in the first loop of create.
\* (mutant of Pass1E2Mask: the candidate is taken for every nonzero digit)
Pass1E2Mask_nonzero(d) == ByteIsNonzero(d)

Pass1E2Mask(d) == BytesEqualCt(d, 1)

\* One iteration of the first loop of create.
CreatePass1(st) ==
    LET idx == st.i + 1
        d == st.v[idx]
        mi_H == st.mi_H
        mi2_H == PointAdd(mi_H, mi_H)
        roles == CreatePass1Draws(d)
        k_i == RandomAt(st.csprng, DrawIndex(roles, "k"))
        maybe_ri == IF \E j \in 1..Len(roles) : roles[j] = "maybe_ri"
                    THEN RandomAt(st.csprng, DrawIndex(roles, "maybe_ri"))
                    ELSE ScalarZero
        r_i == ConditionalAssign(st.r[idx], maybe_ri, ByteIsNonzero(d))
        which_mi_H == WhichMiH(d, mi_H, mi2_H)
        maybe_Ci == PointAdd(BaseMul(r_i), which_mi_H)
        C_i == ConditionalAssign(st.C[idx], maybe_Ci, ByteIsNonzero(d))
        P1 == BaseMul(k_i)
        maybe_ei == HashFromBytes(P1)
        e1_i == ConditionalAssign(st.e_1[idx], maybe_ei, BytesEqualCt(d, 1))
        e2_a == ConditionalAssign(st.e_2[idx], maybe_ei, BytesEqualCt(d, 2))
        maybe_s2 == RandomAt(st.csprng, DrawIndex(roles, "maybe_s2"))
        s2_i == ConditionalAssign(st.s_2[idx], maybe_s2, BytesEqualCt(d, 1))
        P2 == PointSub(BaseMul(s2_i), PointMul(e1_i, PointSub(C_i, mi2_H)))
        maybe_ei2 == HashFromBytes(P2)
        e2_i == ConditionalAssign(e2_a, maybe_ei2, Pass1E2Mask(d))
        maybe_Ri == PointMul(e2_i, C_i)
        R_i == ConditionalAssign(BaseMul(k_i), maybe_Ri, ByteIsNonzero(d))
        dr == Drawn(st, roles)
    IN  IF ~(d = 0 \/ d = 1 \/ d = 2)
        THEN InvalidDigit(st)
        ELSE LoopEnd([dr EXCEPT !.k[idx] = k_i, !.r[idx] = r_i, !.C[idx] = C_i,
                                !.e_1[idx] = e1_i, !.s_2[idx] = s2_i,
                                !.e_2[idx] = e2_i, !.R[idx] = R_i],
                     mi2_H, "seal")

\* The calls of Scalar::random in an iteration of the second loop of create.
CreatePass2Draws(d) == <<"maybe_k1", "maybe_k2", "maybe_s_1">>

\* One iteration of the second loop of create.
CreatePass2(st) ==
    LET idx == st.i + 1
        d == st.v[idx]
        mi_H == st.mi_H
        mi2_H == PointAdd(mi_H, mi_H)
        e_0 == st.e_0
        k_i == st.k[idx]
        maybe_k1 == RandomAt(st.csprng, 0)
        k_1 == ConditionalAssign(ScalarZero, maybe_k1, BytesEqualCt(d, 0))
        Pa == PointAdd(BaseMul(k_1), PointMul(e_0, mi_H))
        e1_a == ConditionalAssign(st.e_1[idx], HashFromBytes(Pa), BytesEqualCt(d, 0))
        maybe_k2 == RandomAt(st.csprng, 1)
        k_2 == ConditionalAssign(ScalarZero, maybe_k2, BytesEqualCt(d, 0))
        Pb == PointAdd(PointMul(k_2, Gbase), PointMul(e1_a, mi2_H))
        e2_i == ConditionalAssign(st.e_2[idx], HashFromBytes(Pb), BytesEqualCt(d, 0))
        e_2_inv == Invert(e2_i)
        maybe_r_i == ScalarMul(e_2_inv, k_i)
        r_i == ConditionalAssign(st.r[idx], maybe_r_i, BytesEqualCt(d, 0))
        maybe_C_i == BaseMul(r_i)
        C_i == ConditionalAssign(st.C[idx], maybe_C_i, BytesEqualCt(d, 0))
        s1_a == ConditionalAssign(st.s_1[idx],
                    ZeroDigitResponse(k_1, e_0, k_i, e_2_inv),
                    BytesEqualCt(d, 0))
        s1_b == ConditionalAssign(s1_a, MultiplyAdd(e_0, r_i, k_i), BytesEqualCt(d, 1))
        s1_i == ConditionalAssign(s1_b, RandomAt(st.csprng, 2), BytesEqualCt(d, 2))
        Ci_minus_miH == PointSub(C_i, mi_H)
        Pc == PointSub(PointMul(s1_i, Gbase), PointMul(e_0, Ci_minus_miH))
        e1_i == ConditionalAssign(e1_a, HashFromBytes(Pc), BytesEqualCt(d, 2))
        s2_a == ConditionalAssign(st.s_2[idx],
                    ZeroDigitResponse(k_2, e1_i, k_i, e_2_inv),
                    BytesEqualCt(d, 0))
        s2_i == ConditionalAssign(s2_a, MultiplyAdd(e1_i, r_i, k_i), BytesEqualCt(d, 2))
        dr == Drawn(st, CreatePass2Draws(d))
    IN  IF ~(d = 0 \/ d = 1 \/ d = 2)
        THEN InvalidDigit(st)
        ELSE LoopEnd([dr EXCEPT !.e_1[idx] = e1_i, !.e_2[idx] = e2_i,
                                !.r[idx] = r_i, !.C[idx] = C_i,
                                !.s_1[idx] = s1_i, !.s_2[idx] = s2_i],
                     mi2_H, "finish")

(* ------------------- the code shared by both provers -------------------- *)

\* e_0_hash.input(R[i].compress().as_bytes()) in the loop that computes e_0
\* (mutant of SealInput: the points are absorbed from the last to the first)
SealInput_fromLast(st) ==
    [st EXCEPT !.e_0_hash = Sha512Input(st.e_0_hash, st.R[st.n - st.i]),
               !.i = st.i + 1]

SealInput(st) ==
    [st EXCEPT !.e_0_hash = Sha512Input(st.e_0_hash, st.R[st.i + 1]),
               !.i = st.i + 1]

\* let e_0 = Scalar::from_hash(e_0_hash); let mut mi_H = *H;
SealFinish(st) ==
    [st EXCEPT !.e_0 = FromHash(st.e_0_hash),
               !.mi_H = Hbase,
               !.i = 0,
               !.pc = IF st.n > 0 THEN "pass2" ELSE "finish"]

\* blinding += r[i] for i in 0..n, from Scalar::zero(), evaluated by halves
RECURSIVE SumScalars(_)
SumScalars(s) ==
    IF s = <<>> THEN ScalarZero
    ELSE IF Len(s) = 1 THEN ScalarAdd(ScalarZero, s[1])
    ELSE ScalarAdd(SumScalars(SubSeq(s, 1, Len(s) \div 2)),
                   SumScalars(SubSeq(s, (Len(s) \div 2) + 1, Len(s))))

\* commitment += C[i] for i in 0..n, from the identity, evaluated by halves
RECURSIVE SumPoints(_)
SumPoints(s) ==
    IF s = <<>> THEN Identity
    ELSE IF Len(s) = 1 THEN PointAdd(Identity, s[1])
    ELSE PointAdd(SumPoints(SubSeq(s, 1, Len(s) \div 2)),
                  SumPoints(SubSeq(s, (Len(s) \div 2) + 1, Len(s))))

\* The loop that sums blinding and commitment, and the return of
\* Some((RangeProof{e_0, C, s_1, s_2}, commitment, blinding)).
CreateFinish(st) ==
    [st EXCEPT !.pc = "returned",
               !.ret = "Some",
               !.out = [proof |-> [e_0 |-> st.e_0, C |-> st.C,
                                   s_1 |-> st.s_1, s_2 |-> st.s_2],
                        commitment |-> SumPoints(st.C),
                        blinding |-> SumScalars(st.r)]]

\* One step of a prover that has been called and has not returned.
ProverStep(st) ==
    CASE st.pc = "pass1" ->
           IF st.fn = "create" THEN CreatePass1(st) ELSE CreateVartimePass1(st)
      [] st.pc = "seal" ->
           IF st.i < st.n THEN SealInput(st) ELSE SealFinish(st)
      [] st.pc = "pass2" ->
           IF st.fn = "create" THEN CreatePass2(st) ELSE CreateVartimePass2(st)
      [] st.pc = "finish" -> CreateFinish(st)
      [] OTHER -> st

\* Up to m steps of a prover, evaluated by halves.
RECURSIVE ProverSteps(_, _)
ProverSteps(st, m) ==
    IF st.pc = "returned" THEN st
    ELSE IF m = 1 THEN ProverStep(st)
    ELSE ProverSteps(ProverSteps(st, m \div 2), m - (m \div 2))

\* The steps of a prover up to its return, sixteen at a time.
RECURSIVE RunProver(_)
RunProver(st) ==
    IF st.pc = "returned" THEN st ELSE RunProver(ProverSteps(st, 16))

\* RangeProof::create_vartime(n, value, G, H, csprng), run to its return.
create_vartime(n, value, csprng) ==
    RunProver(CreateHead("create_vartime", n, value, csprng))

(* ------------------------------- verify -------------------------------- *)

\* The proof handed to verify is the prover's, as it is.
NoTamper == [kind |-> "none", idx |-> 0, ds |-> ScalarZero, dp |-> Identity]

\* The frame of a verifier that has not been called.
IdleVerify ==
    [pc |-> "idle", ret |-> "none", n |-> 0, self |-> NoProof, i |-> 0,
     mi_H |-> Identity, C |-> Identity, e_0_hash |-> Sha512Default,
     hashed |-> {},
     out |-> Identity, tamper |-> NoTamper]

\* if n != self.C.len() {..} else if n != self.s_1.len() {..}
\* else if n != self.s_2.len() {..}
\* (mutant of Malformed: no length is compared)
Malformed_unchecked(self, n) == FALSE

\* (mutant of Malformed: the length of s_2 is not compared)
Malformed_noS2(self, n) == n # Len(self.C) \/ n # Len(self.s_1)

Malformed(self, n) ==
    n # Len(self.C) \/ n # Len(self.s_1) \/ n # Len(self.s_2)

\* The head of verify: the bound check, the length checks and the
\* initialisation of the transcript, of C and of mi_H.
VerifyHead(self, n, tamper) ==
    LET f0 == [IdleVerify EXCEPT !.self = self, !.n = n, !.tamper = tamper]
    IN  IF BoundTooLarge(n)
        THEN [f0 EXCEPT !.pc = "returned", !.ret = "panic"]
        ELSE IF Malformed(self, n)
        THEN [f0 EXCEPT !.pc = "returned", !.ret = "None"]
        ELSE [f0 EXCEPT !.pc = "loop", !.mi_H = Hbase]

\* One iteration of the loop of verify; indexing a vector past its end panics.
\* (mutant of VerifyLoop: the second point is computed from s_1[i] again)
VerifyLoop_s1Twice(f) ==
    LET idx == f.i + 1
        self == f.self
        mi_H == f.mi_H
        mi2_H == PointAdd(mi_H, mi_H)
        Ci_minus_miH == PointSub(self.C[idx], mi_H)
        P1 == KFoldScalarMult(self.s_1[idx], ScalarNeg(self.e_0), Gbase, Ci_minus_miH)
        ei_1 == HashFromBytes(P1)
        Ci_minus_2miH == PointSub(self.C[idx], mi2_H)
        P2 == KFoldScalarMult(self.s_1[idx], ScalarNeg(ei_1), Gbase, Ci_minus_2miH)
        ei_2 == HashFromBytes(P2)
        Ri == PointMul(ei_2, self.C[idx])
    IN  IF idx > Len(self.C) \/ idx > Len(self.s_1) \/ idx > Len(self.s_2)
        THEN [f EXCEPT !.pc = "returned", !.ret = "panic"]
        ELSE [f EXCEPT !.e_0_hash = Sha512Input(f.e_0_hash, Ri),
                       !.hashed = @ \cup {Hashed(Sha512Input(Sha512Default, P1)),
                                          Hashed(Sha512Input(Sha512Default, P2))},
                       !.C = PointAdd(f.C, self.C[idx]),
                       !.mi_H = PointAdd(mi_H, mi2_H),
                       !.i = f.i + 1]

VerifyLoop(f) ==
    LET idx == f.i + 1
        self == f.self
        mi_H == f.mi_H
        mi2_H == PointAdd(mi_H, mi_H)
        Ci_minus_miH == PointSub(self.C[idx], mi_H)
        P1 == KFoldScalarMult(self.s_1[idx], ScalarNeg(self.e_0), Gbase, Ci_minus_miH)
        ei_1 == HashFromBytes(P1)
        Ci_minus_2miH == PointSub(self.C[idx], mi2_H)
        P2 == KFoldScalarMult(self.s_2[idx], ScalarNeg(ei_1), Gbase, Ci_minus_2miH)
        ei_2 == HashFromBytes(P2)
        Ri == PointMul(ei_2, self.C[idx])
    IN  IF idx > Len(self.C) \/ idx > Len(self.s_1) \/ idx > Len(self.s_2)
        THEN [f EXCEPT !.pc = "returned", !.ret = "panic"]
        ELSE [f EXCEPT !.e_0_hash = Sha512Input(f.e_0_hash, Ri),
                       !.hashed = @ \cup {Hashed(Sha512Input(Sha512Default, P1)),
                                          Hashed(Sha512Input(Sha512Default, P2))},
                       !.C = PointAdd(f.C, self.C[idx]),
                       !.mi_H = PointAdd(mi_H, mi2_H),
                       !.i = f.i + 1]

\* The test e_0_hat == self.e_0 that decides between Some(C) and None.
\* (mutant of E0Matches: the recomputed e_0 is not compared)
E0Matches_unchecked(e_0_hat, e_0) == TRUE

E0Matches(e_0_hat, e_0) == e_0_hat = e_0

\* let e_0_hat = Scalar::from_hash(e_0_hash);
\* if e_0_hat == self.e_0 { return Some(C); } else { return None; }
VerifyFinish(f) ==
    LET e_0_hat == FromHash(f.e_0_hash)
        g == [f EXCEPT !.hashed = @ \cup {Hashed(f.e_0_hash)}]
    IN  IF E0Matches(e_0_hat, f.self.e_0)
        THEN [g EXCEPT !.pc = "returned", !.ret = "Some", !.out = f.C]
        ELSE [g EXCEPT !.pc = "returned", !.ret = "None"]

\* One step of a verifier that has been called.
VerifyStep(f) ==
    IF f.pc # "loop" THEN f
    ELSE IF f.i < f.n THEN VerifyLoop(f) ELSE VerifyFinish(f)

\* Up to m steps of a verifier, evaluated by halves.
RECURSIVE VerifySteps(_, _)
VerifySteps(f, m) ==
    IF f.pc = "returned" THEN f
    ELSE IF m = 1 THEN VerifyStep(f)
    ELSE VerifySteps(VerifySteps(f, m \div 2), m - (m \div 2))

\* The steps of a verifier up to its return, sixteen at a time.
RECURSIVE RunVerify(_)
RunVerify(f) ==
    IF f.pc = "returned" THEN f ELSE RunVerify(VerifySteps(f, 16))

\* self.verify(n, G, H), run to its return.
verify(self, n) == RunVerify(VerifyHead(self, n, NoTamper))

(* ------------------------------ inputs ---------------------------------- *)

RECURSIVE Pow3(_)
Pow3(m) == IF m = 0 THEN 1 ELSE 3 * Pow3(m - 1)

\* Every rng tape of length TapeLen.
Tapes == [1..TapeLen -> Scalar]

\* The tape under which every bound n and the 64-bit values are explored.
WideTape == [j \in 1..TapeLen |-> j % ELL]

\* The values 0 .. 3^MaxN + 1, explored under every tape.
SmallValues == {U64Small(m) : m \in 0..(Pow3(MaxN) + 1)}

\* 0, 1, 2, 3, 13449261 and 134492616741 (the tests and the documentation),
\* 3^10 and 3^10 + 1, 2^16 - 1, 2^16, 2^32, 2^48, 3^40 - 1, 3^40, 3^40 + 1,
\* 2^64 - 1, and 10352669767914021650 and 17232767106382697250 (two of the
\* ten values of tests::base3_digits_vs_sage).
WideValues ==
    { U64Small(0), U64Small(1), U64Small(2), U64Small(3),
      <<14381, 205, 0, 0>>, <<30757, 20578, 31, 0>>,
      U64Small(59049), U64Small(59050),
      U64Small(65535), <<0, 1, 0, 0>>, <<0, 0, 1, 0>>, <<0, 0, 0, 1>>,
      <<59424, 10527, 46162, 43192>>, <<59425, 10527, 46162, 43192>>,
      <<59426, 10527, 46162, 43192>>,
      <<65535, 65535, 65535, 65535>>,
      <<58130, 39280, 4685, 36780>>, <<4898, 20730, 5729, 61223>> }

Values == SmallValues \cup WideValues

\* The bounds handed to the provers.
Bounds == 0..(RANGEPROOF_MAX_N + 1)

\* The calls of the provers that are explored.
Explored(n, value, csprng) ==
    \/ n <= MaxN /\ value \in SmallValues
    \/ csprng.tape = WideTape /\ value \in WideValues

\* The bounds handed to verify for a proof made with bound n.
VerifyBounds(n) ==
    {m \in {n - 1, n, n + 1, 2, RANGEPROOF_MAX_N, RANGEPROOF_MAX_N + 1} : m >= 0}

ComponentKinds == {"e_0", "C", "s_1", "s_2"}

\* A RangeProof is plain data (it is deserialized): the proofs handed to
\* verify are the prover's proof, that proof with one component replaced by
\* another value, and that proof with one vector one element shorter or longer.
Tampers(proof) ==
    {NoTamper}
    \cup {[kind |-> kd, idx |-> 0, ds |-> ScalarZero, dp |-> Identity] :
            kd \in {"push_C", "push_s_1", "push_s_2"}}
    \cup {[kind |-> kd, idx |-> 0, ds |-> ScalarZero, dp |-> Identity] :
            kd \in {x \in {"pop_C", "pop_s_1", "pop_s_2"} : Len(proof.C) > 0}}
    \cup (IF Len(proof.C) > MaxN THEN {} ELSE
            {[kind |-> "e_0", idx |-> 0, ds |-> d, dp |-> Identity] :
               d \in {1, ELL - 1}}
            \cup {[kind |-> kd, idx |-> j, ds |-> d, dp |-> Identity] :
                    kd \in {"s_1", "s_2"}, j \in 1..Len(proof.C), d \in {1, ELL - 1}}
            \cup {[kind |-> "C", idx |-> j, ds |-> ScalarZero, dp |-> q] :
                    j \in 1..Len(proof.C),
                    q \in {Gbase, Hbase}})

Pop(s) == SubSeq(s, 1, Len(s) - 1)

ApplyTamper(proof, t) ==
    CASE t.kind = "none" -> proof
      [] t.kind = "e_0" -> [proof EXCEPT !.e_0 = ScalarAdd(@, t.ds)]
      [] t.kind = "C" -> [proof EXCEPT !.C[t.idx] = PointAdd(@, t.dp)]
      [] t.kind = "s_1" -> [proof EXCEPT !.s_1[t.idx] = ScalarAdd(@, t.ds)]
      [] t.kind = "s_2" -> [proof EXCEPT !.s_2[t.idx] = ScalarAdd(@, t.ds)]
      [] t.kind = "pop_C" -> [proof EXCEPT !.C = Pop(@)]
      [] t.kind = "pop_s_1" -> [proof EXCEPT !.s_1 = Pop(@)]
      [] t.kind = "pop_s_2" -> [proof EXCEPT !.s_2 = Pop(@)]
      [] t.kind = "push_C" -> [proof EXCEPT !.C = Append(@, Identity)]
      [] t.kind = "push_s_1" -> [proof EXCEPT !.s_1 = Append(@, ScalarZero)]
      [] t.kind = "push_s_2" -> [proof EXCEPT !.s_2 = Append(@, ScalarZero)]

(* --------------------------- state machine ------------------------------ *)

VARIABLES
    pf,     \* the frame of the prover: its arguments, locals, rng and result
    vf      \* the frame of the verifier: self, its arguments, locals and result

vars == <<pf, vf>>

Init ==
    /\ \E t \in Tapes : pf = IdleFrame([tape |-> t, pos |-> 0])
    /\ vf = IdleVerify

\* RangeProof::create(n, value, G, H, csprng) is called.
CreateCall ==
    /\ pf.pc = "idle"
    /\ \E n \in Bounds, value \in Values :
         /\ Explored(n, value, pf.csprng)
         /\ pf' = CreateHead("create", n, value, pf.csprng)
    /\ UNCHANGED vf

\* RangeProof::create_vartime(n, value, G, H, csprng) is called.
CreateVartimeCall ==
    /\ pf.pc = "idle"
    /\ \E n \in Bounds, value \in Values :
         /\ Explored(n, value, pf.csprng)
         /\ pf' = CreateHead("create_vartime", n, value, pf.csprng)
    /\ UNCHANGED vf

CreatePass1Step ==
    /\ pf.fn = "create" /\ pf.pc = "pass1"
    /\ pf' = CreatePass1(pf)
    /\ UNCHANGED vf

CreateVartimePass1Step ==
    /\ pf.fn = "create_vartime" /\ pf.pc = "pass1"
    /\ pf' = CreateVartimePass1(pf)
    /\ UNCHANGED vf

SealInputStep ==
    /\ pf.pc = "seal" /\ pf.i < pf.n
    /\ pf' = SealInput(pf)
    /\ UNCHANGED vf

SealFinishStep ==
    /\ pf.pc = "seal" /\ pf.i = pf.n
    /\ pf' = SealFinish(pf)
    /\ UNCHANGED vf

CreatePass2Step ==
    /\ pf.fn = "create" /\ pf.pc = "pass2"
    /\ pf' = CreatePass2(pf)
    /\ UNCHANGED vf

CreateVartimePass2Step ==
    /\ pf.fn = "create_vartime" /\ pf.pc = "pass2"
    /\ pf' = CreateVartimePass2(pf)
    /\ UNCHANGED vf

CreateFinishStep ==
    /\ pf.pc = "finish"
    /\ pf' = CreateFinish(pf)
    /\ UNCHANGED vf

\* proof.verify(nv, G, H) is called on the proof a prover returned, or on
\* that proof with the change t.
VerifyCall ==
    /\ pf.pc = "returned" /\ pf.ret = "Some"
    /\ vf.pc = "idle"
    /\ \E nv \in VerifyBounds(pf.n), t \in Tampers(pf.out.proof) :
         /\ t.kind \in ComponentKinds => nv = pf.n
         /\ vf' = VerifyHead(ApplyTamper(pf.out.proof, t), nv, t)
    /\ UNCHANGED pf

VerifyLoopStep ==
    /\ vf.pc = "loop" /\ vf.i < vf.n
    /\ vf' = VerifyLoop(vf)
    /\ UNCHANGED pf

VerifyFinishStep ==
    /\ vf.pc = "loop" /\ vf.i = vf.n
    /\ vf' = VerifyFinish(vf)
    /\ UNCHANGED pf

Next ==
    \/ CreateCall
    \/ CreateVartimeCall
    \/ CreatePass1Step
    \/ CreateVartimePass1Step
    \/ SealInputStep
    \/ SealFinishStep
    \/ CreatePass2Step
    \/ CreateVartimePass2Step
    \/ CreateFinishStep
    \/ VerifyCall
    \/ VerifyLoopStep
    \/ VerifyFinishStep

Spec == Init /\ [][Next]_vars

(* ----------------- arithmetic used to state the claims ------------------ *)

\* Numbers below 2^80, as five 16-bit limbs, least significant first.
Widen(x) == x \o <<0>>

\* m * a + d, for 0 <= m <= 243 and 0 <= d < 2^16
WideMulAdd(a, m, d) ==
    LET t1 == a[1] * m + d
        t2 == a[2] * m + (t1 \div LimbBase)
        t3 == a[3] * m + (t2 \div LimbBase)
        t4 == a[4] * m + (t3 \div LimbBase)
        t5 == a[5] * m + (t4 \div LimbBase)
    IN  <<t1 % LimbBase, t2 % LimbBase, t3 % LimbBase, t4 % LimbBase, t5 % LimbBase>>

\* 3^m, five factors of 3 at a time
RECURSIVE WidePow3(_)
WidePow3(m) ==
    IF m = 0 THEN <<1, 0, 0, 0, 0>>
    ELSE IF m >= 5 THEN WideMulAdd(WidePow3(m - 5), 243, 0)
    ELSE WideMulAdd(WidePow3(m - 1), 3, 0)

RECURSIVE WideLessFrom(_, _, _)
WideLessFrom(a, b, j) ==
    IF j = 0 THEN FALSE
    ELSE IF a[j] # b[j] THEN a[j] < b[j]
    ELSE WideLessFrom(a, b, j - 1)

\* a < b
WideLess(a, b) == WideLessFrom(a, b, 5)

\* The sum over i of digits[i] * 3^i, five digits at a time
RECURSIVE DigitsValue(_)
DigitsValue(digits) ==
    IF digits = <<>> THEN <<0, 0, 0, 0, 0>>
    ELSE IF Len(digits) >= 5
    THEN WideMulAdd(DigitsValue(SubSeq(digits, 6, Len(digits))), 243,
                    digits[1] + 3 * digits[2] + 9 * digits[3]
                      + 27 * digits[4] + 81 * digits[5])
    ELSE WideMulAdd(DigitsValue(Tail(digits)), 3, Head(digits))

\* The prover was called with a bound it accepts and a value below 3^n.
BelowPow3 == WideLess(Widen(pf.value), WidePow3(pf.n))

\* value >= 3^n
AtLeastPow3 == ~BelowPow3

\* Some base-3 digit of value at an index in [n, 41) is nonzero.
HighDigitNonzero == \E i \in pf.n..(DIGITS - 1) : pf.v[i + 1] # 0

\* The prover's frame before verify is called (verify leaves it unchanged).
ProverOnly == vf.pc = "idle"

\* verify has returned from a call on the proof the prover returned.
VerifiedUnchanged == vf.pc = "returned" /\ vf.tamper = NoTamper

(* ------------------------------ claims ---------------------------------- *)

\* C8: for every u64 x, base3_digits(x) has 41 digits, each in {0,1,2}, and
\* the sum over i of digits[i] * 3^i is x (so digits[i] = floor(x / 3^i) mod 3).
C8_DigitCorrectness ==
    (ProverOnly /\ pf.v # <<>>) =>
        /\ Len(pf.v) = 41
        /\ \A j \in 1..Len(pf.v) : pf.v[j] \in {0, 1, 2}
        /\ DigitsValue(pf.v) = Widen(pf.value)

\* C8 witness: the digits of 10352669767914021650 are those of
\* tests::base3_digits_vs_sage.
C8_Witness ==
    /\ ProverOnly
    /\ pf.value = <<58130, 39280, 4685, 36780>>
    /\ pf.v = <<2, 2, 0, 2, 1, 2, 2, 2, 1, 1, 2, 2, 1, 1, 1, 2, 1, 2, 0, 1, 0,
                2, 2, 1, 0, 1, 2, 0, 2, 0, 2, 2, 0, 2, 2, 2, 2, 1, 1, 2, 0>>

C1_CompletenessClosedRange ==
    /\ (pf.pc = "returned" /\ pf.n <= RANGEPROOF_MAX_N
          /\ ~WideLess(WidePow3(pf.n), Widen(pf.value))) => pf.ret = "Some"
    /\ (VerifiedUnchanged /\ vf.n = pf.n /\ vf.n <= RANGEPROOF_MAX_N) => vf.ret = "Some"

Opening == PointAdd(BaseMul(pf.out.blinding), PointMul(FromU64(pf.value), Hbase))

\* C3: when a prover returns Some((proof, commitment, blinding)), commitment
\* is blinding*G + value*H; when verify returns Some(C) on that proof, C is
\* that point, the sum of the proof's C^i.
C3_CommitmentConsistency ==
    /\ pf.ret = "Some" => pf.out.commitment = Opening
    /\ (VerifiedUnchanged /\ vf.ret = "Some") =>
          /\ vf.out = Opening
          /\ vf.out = SumPoints(pf.out.proof.C)
          /\ vf.out = pf.out.commitment

\* C3 witness: verify(2) accepted the proof create made for the value 7
\* (digits 1 and 2) with a nonzero blinding.
C3_Witness ==
    /\ pf.fn = "create" /\ pf.n = 2 /\ pf.value = U64Small(7)
    /\ pf.out.blinding # 0
    /\ VerifiedUnchanged /\ vf.ret = "Some"

\* C4 (as claimed): verify called with any bound n' # n on a proof a prover
\* made with bound n returns None.
C4_WrongBoundReturnsNone ==
    (VerifiedUnchanged /\ vf.n # pf.n) => vf.ret = "None"

\* C4 (amended): verify called with a bound n' # n, n' <= 41, on a proof a
\* prover made with bound n returns None.
C4_WrongBoundRejected ==
    (VerifiedUnchanged /\ vf.n # pf.n /\ vf.n <= RANGEPROOF_MAX_N) => vf.ret = "None"

\* C4 witness: create_vartime(16, 13449261) returned a proof and verify(2)
\* returned None on it (tests::prove_and_verify_vartime).
C4_Witness ==
    /\ pf.fn = "create_vartime" /\ pf.n = 16 /\ pf.value = <<14381, 205, 0, 0>>
    /\ pf.ret = "Some"
    /\ VerifiedUnchanged /\ vf.n = 2 /\ vf.ret = "None"

\* The vectors of the proof handed to verify do not all have length n.
LengthMismatch ==
    vf.n # Len(vf.self.C) \/ vf.n # Len(vf.self.s_1) \/ vf.n # Len(vf.self.s_2)

\* C7: for n <= 41 verify returns None whenever a vector of the proof has a
\* length other than n, never indexes a vector past its end, and returns
\* nothing but Some and None.
C7_MalformedRejected ==
    /\ (vf.pc = "returned" /\ vf.n <= RANGEPROOF_MAX_N) =>
          /\ LengthMismatch => vf.ret = "None"
          /\ vf.ret \in {"Some", "None"}
    /\ vf.pc = "loop" => ~LengthMismatch

\* C7 witness: verify(2) returned None on a proof whose C and s_1 have
\* length 2 and whose s_2 has length 1.
C7_Witness ==
    /\ vf.pc = "returned" /\ vf.n = 2 /\ vf.ret = "None"
    /\ Len(vf.self.C) = 2 /\ Len(vf.self.s_1) = 2 /\ Len(vf.self.s_2) = 1

\* The calls of Scalar::random made so far, without the values drawn.
DrawOrder == [j \in 1..Len(pf.draws) |-> <<pf.draws[j].role, pf.draws[j].i>>]

\* k, r and s_2 candidates for i = 0..n-1, then k_1, k_2 and s_1 candidates
\* for i = 0..n-1.
UniformDrawOrder(n) ==
    [j \in 1..(6 * n) |->
        IF j <= 3 * n
        THEN << <<"k", "maybe_ri", "maybe_s2">>[((j - 1) % 3) + 1], (j - 1) \div 3 >>
        ELSE << <<"maybe_k1", "maybe_k2", "maybe_s_1">>[((j - 1) % 3) + 1],
                (j - 1 - 3 * n) \div 3 >>]

\* C9: create draws from the rng in an order that depends on n alone: three
\* draws per digit in the first loop and three per digit in the second, 6n
\* by its return, whatever the digits of value.
C9_UniformDraws ==
    (ProverOnly /\ pf.fn = "create") =>
        /\ Len(pf.draws) <= 6 * pf.n
        /\ DrawOrder = SubSeq(UniformDrawOrder(pf.n), 1, Len(pf.draws))
        /\ pf.csprng.pos = Len(pf.draws)
        /\ pf.ret = "Some" => Len(pf.draws) = 6 * pf.n

\* C9 witness: create(2, 0) returned after 12 draws (create_vartime draws 6
\* times for the digits 0, 0).
C9_Witness ==
    /\ ProverOnly
    /\ pf.fn = "create" /\ pf.n = 2 /\ pf.value = U64Zero /\ pf.ret = "Some"
    /\ Len(pf.draws) = 12

\* verify(n) on the proof the prover returned, as it is.
HonestVerify == verify(pf.out.proof, pf.n)

\* No two different inputs among those the prover hashed to e_0, those
\* verify hashed on the prover's proof and those verify hashed on the changed
\* proof were reduced to the same scalar.
CollisionFree ==
    \A a, b \in {Hashed(pf.e_0_hash)} \cup HonestVerify.hashed \cup vf.hashed :
        a.input # b.input => a.out # b.out

\* verify(n) has returned on the prover's proof with the one component
\* named by kinds replaced by a different value.
Replaced(kinds) ==
    /\ pf.ret = "Some"
    /\ vf.pc = "returned" /\ vf.n = pf.n
    /\ vf.tamper.kind \in kinds
    /\ vf.self # pf.out.proof

\* 2 * 3^i * H for the index i (from 0) of the replaced component
TwiceMiH == PointMul((2 * Pow3(vf.tamper.idx - 1)) % ELL, Hbase)

\* C5 (as claimed): with no collision of the hash, replacing e_0, one C^i,
\* one s_1^i or one s_2^i of a prover's proof by a different value makes
\* verify(n) return None.
C5_TamperRejected ==
    (Replaced(ComponentKinds) /\ CollisionFree) => vf.ret = "None"

\* C5 (amended): with no collision of the hash, replacing s_2^i by a
\* different value makes verify(n) return None when C^i is not the identity,
\* and replacing s_1^i does when C^i is neither the identity nor 2 * 3^i * H.
C5_ScalarTamperRejected ==
    /\ (/\ Replaced({"s_2"}) /\ CollisionFree
        /\ pf.out.proof.C[vf.tamper.idx] # Identity)
       => vf.ret = "None"
    /\ (/\ Replaced({"s_1"}) /\ CollisionFree
        /\ pf.out.proof.C[vf.tamper.idx] \notin {Identity, TwiceMiH})
       => vf.ret = "None"

\* C5 witness: verify accepts the proof a prover made with n = 2, and
\* returned None on that proof with s_1^1 replaced, where C^1 is neither the
\* identity nor 6H, in a run without a collision of the hash.
C5_Witness ==
    /\ Replaced({"s_1"}) /\ CollisionFree
    /\ pf.n = 2 /\ vf.tamper.idx = 2
    /\ pf.out.proof.C[2] \notin {Identity, TwiceMiH}
    /\ HonestVerify.ret = "Some"
    /\ vf.ret = "None"


\* Whether a call of Scalar::random made by create is one create_vartime
\* makes too for the same digit: k^i always, r^i for the digits 1 and 2,
\* s_2^i for the digit 1, k_1 and k_2 for the digit 0, s_1^i for the digit 2.
RoleMatched(dr) ==
    LET d == pf.v[dr.i + 1]
    IN  \/ dr.role = "k"
        \/ dr.role = "maybe_ri" /\ d # 0
        \/ dr.role = "maybe_s2" /\ d = 1
        \/ dr.role \in {"maybe_k1", "maybe_k2"} /\ d = 0
        \/ dr.role = "maybe_s_1" /\ d = 2

\* The values of the role-matched draws of create, in the order drawn.
RoleMatchedDraws ==
    LET sel == SelectSeq(pf.draws, RoleMatched)
    IN  [j \in 1..Len(sel) |-> sel[j].val]

\* create_vartime called with the arguments of create and an rng that yields
\* the role-matched draws of create.
VartimeTwin == create_vartime(pf.n, pf.value, [tape |-> RoleMatchedDraws, pos |-> 0])

\* C10: when create has returned Some, create_vartime with the same n and
\* value, drawing the role-matched draws of create and nothing else, returns
\* the same (proof, commitment, blinding).
C10_ProverEquivalence ==
    (ProverOnly /\ pf.fn = "create" /\ pf.ret = "Some") =>
        /\ VartimeTwin.ret = "Some"
        /\ VartimeTwin.out = pf.out
        /\ Len(VartimeTwin.draws) = Len(RoleMatchedDraws)

\* C10 witness: create(2, 7) returned (digits 1, 2); of its 12 draws, 6 are
\* role-matched, and create_vartime returns the same output from these 6.
C10_Witness ==
    /\ pf.fn = "create" /\ pf.ret = "Some" /\ pf.n = 2 /\ pf.value = U64Small(7)
    /\ ProverOnly
    /\ Len(pf.draws) = 12 /\ Len(RoleMatchedDraws) = 6
    /\ VartimeTwin.out = pf.out

(* ------------------------- C11: verifier decision ----------------------- *)

\* 3^i as a scalar, by squaring
RECURSIVE Pow3Scalar(_)
Pow3Scalar(i) ==
    IF i = 0 THEN 1 % ELL
    ELSE IF i % 2 = 0
    THEN ScalarMul(Pow3Scalar(i \div 2), Pow3Scalar(i \div 2))
    ELSE ScalarMul(3 % ELL, Pow3Scalar(i - 1))

\* m_i = 3^i * H
Mi(i) == PointMul(Pow3Scalar(i), Hbase)

\* R^i = e_2^i * C^i of a proof, for i from 0, with
\* e_1^i = Hash(s_1^i*G - e_0*(C^i - m_i)) and
\* e_2^i = Hash(s_2^i*G - e_1^i*(C^i - 2*m_i))
RingR(proof, i) ==
    LET Ci == proof.C[i + 1]
        e_1 == HashFromBytes(PointSub(BaseMul(proof.s_1[i + 1]),
                                      PointMul(proof.e_0, PointSub(Ci, Mi(i)))))
        e_2 == HashFromBytes(PointSub(BaseMul(proof.s_2[i + 1]),
                                      PointMul(e_1, PointSub(Ci, PointAdd(Mi(i), Mi(i))))))
    IN  PointMul(e_2, Ci)

\* C11: when verify(n), n <= 41, returns on a proof whose vectors all have
\* length n, its transcript has absorbed R^0 .. R^(n-1) and nothing else, it
\* returns Some exactly when the scalar derived from that transcript is the
\* stored e_0, Some carries the sum of the C^i, and otherwise it returns None.
C11_VerifierDecision ==
    (vf.pc = "returned" /\ vf.n <= RANGEPROOF_MAX_N /\ ~LengthMismatch) =>
        /\ vf.e_0_hash.input = [j \in 1..vf.n |-> Compress(RingR(vf.self, j - 1))]
        /\ (vf.ret = "Some") <=> (FromHash(vf.e_0_hash) = vf.self.e_0)
        /\ (vf.ret # "Some") <=> (vf.ret = "None")
        /\ vf.ret = "Some" => vf.out = SumPoints(vf.self.C)

\* C11 witness: verify(2) returned Some, with a sum other than the identity,
\* on a proof whose vectors have length 2.
C11_Witness ==
    /\ vf.pc = "returned" /\ vf.n = 2 /\ ~LengthMismatch
    /\ vf.ret = "Some" /\ vf.out # Identity /\ vf.self.C[2] # Identity

(* ----------------------- C12: zero-inversion guard ---------------------- *)

\* The prover has inverted e_2^i = 0 for some zero digit v_i: the second loop
\* is past the index i (or over), v_i = 0 and the e_2^i it inverted is zero.
InvertedZero ==
    \E j \in 1..pf.n :
        /\ pf.pc \in {"finish", "returned"} \/ (pf.pc = "pass2" /\ j <= pf.i)
        /\ pf.ret \in {"none", "Some"}
        /\ pf.v[j] = 0
        /\ pf.e_2[j] = ScalarZero

\* C12 (as claimed): a prover that inverts e_2^i = 0 in the v_i = 0 branch
\* stops with an assertion failure: it neither goes on with the result of the
\* inversion nor returns a proof.
C12_ZeroInversionGuard ==
    (pf.pc \in {"pass2", "finish", "returned"} /\ pf.ret # "panic") => ~InvertedZero

(* ------------------ C13: completeness below the boundary ---------------- *)

\* Every e_2^i the prover computed for a zero digit is nonzero.
ZeroDigitChallengesNonzero ==
    \A j \in 1..pf.n : pf.v[j] = 0 => pf.e_2[j] # ScalarZero

\* C13: for n <= 41 and value < 3^n a prover returns Some; when every e_2^i
\* of a zero digit is nonzero, verify(n) on the returned proof absorbs, index
\* by index, the R^i the prover absorbed, and returns Some.
C13_CompletenessBelowBoundary ==
    /\ (ProverOnly /\ pf.pc = "returned" /\ pf.n <= RANGEPROOF_MAX_N /\ BelowPow3)
         => pf.ret = "Some"
    /\ (/\ pf.ret = "Some" /\ ZeroDigitChallengesNonzero
        /\ vf.pc \in {"loop", "returned"} /\ vf.tamper = NoTamper /\ vf.n = pf.n)
         => /\ vf.e_0_hash.input = SubSeq(pf.e_0_hash.input, 1, vf.i)
            /\ vf.pc = "returned" => vf.ret = "Some"

\* C13 witness: verify(2) accepted the proof create made for the value 6
\* (digits 0, 2), whose e_2^0 is nonzero.
C13_Witness ==
    /\ pf.fn = "create" /\ pf.n = 2 /\ pf.value = U64Small(6)
    /\ pf.ret = "Some" /\ ZeroDigitChallengesNonzero
    /\ VerifiedUnchanged /\ vf.n = 2 /\ vf.ret = "Some"

(* ------------------ C14: transcript ordering and sealing ---------------- *)

\* The number of points the prover's outer transcript has absorbed: none in
\* the first pass, i in the loop that feeds it, n once e_0 is derived.
AbsorbedByProver ==
    CASE pf.pc = "seal" -> pf.i
      [] pf.pc \in {"pass2", "finish"} -> pf.n
      [] pf.pc = "returned" /\ pf.ret = "Some" -> pf.n
      [] OTHER -> 0

\* The number of points the verifier's outer transcript has absorbed.
AbsorbedByVerifier ==
    IF vf.pc = "loop" \/ (vf.pc = "returned" /\ vf.ret \in {"Some", "None"}
                            /\ ~LengthMismatch)
    THEN vf.i ELSE 0

\* The transcripts hold R^0 .. R^(k-1) in index order, each once, for the k
\* points absorbed so far; e_0 is derived from n of them, and the verifier
\* decides on n of them.
TranscriptInOrder ==
    /\ pf.e_0_hash.input = [j \in 1..AbsorbedByProver |-> Compress(pf.R[j])]
    /\ vf.e_0_hash.input =
          [j \in 1..AbsorbedByVerifier |-> Compress(RingR(vf.self, j - 1))]
    /\ (vf.pc = "returned" /\ vf.ret \in {"Some", "None"} /\ ~LengthMismatch)
          => AbsorbedByVerifier = vf.n
    /\ pf.pc \in {"pass1", "seal"} =>
          /\ pf.s_1 = [j \in 1..pf.n |-> ScalarZero]
          /\ pf.e_0 = ScalarZero
    /\ pf.pc = "pass1" => \A j \in (pf.i + 1)..pf.n : pf.R[j] = Identity

\* A step of a prover: the first pass computes R^i and nothing of s_1, the
\* feeding loop appends R^i to the transcript, e_0 is derived when n points
\* are in it, and from the feeding loop on R and then the transcript stay
\* as they are.
SealedStep ==
    /\ pf.pc = "pass1" =>
          /\ \A j \in 1..pf.n : j # pf.i + 1 => pf'.R[j] = pf.R[j]
          /\ pf'.s_1 = pf.s_1 /\ pf'.e_0_hash = pf.e_0_hash /\ pf'.e_0 = pf.e_0
    /\ pf.pc \in {"seal", "pass2", "finish", "returned"} => pf'.R = pf.R
    /\ pf.pc = "seal" =>
          /\ pf'.s_1 = pf.s_1
          /\ pf.i < pf.n =>
                /\ pf'.e_0_hash.input = Append(pf.e_0_hash.input, Compress(pf.R[pf.i + 1]))
                /\ pf'.e_0 = pf.e_0
          /\ pf.i = pf.n =>
                /\ pf'.e_0_hash = pf.e_0_hash
                /\ pf'.e_0 = FromHash(pf.e_0_hash)
                /\ Len(pf.e_0_hash.input) = pf.n
    /\ pf.pc \in {"pass2", "finish", "returned"} =>
          pf'.e_0_hash = pf.e_0_hash /\ pf'.e_0 = pf.e_0
    /\ (vf.pc = "loop" /\ vf'.pc = "loop") =>
          /\ vf'.i = vf.i + 1
          /\ vf'.e_0_hash.input =
                Append(vf.e_0_hash.input, Compress(RingR(vf.self, vf.i)))

\* C14: the outer transcript of a prover and of the verifier absorbs exactly
\* the n points R^0 .. R^(n-1), each once and in increasing index order,
\* before e_0 is derived; a prover computes every R^i before it derives e_0,
\* changes no R^i afterwards and assigns no s_1^i before.
C14_TranscriptSealing == []TranscriptInOrder /\ [][SealedStep]_vars

\* C14 witness: the second pass of create(2, 7) has assigned s_1^0, after
\* e_0 was derived from a transcript of two different points.
C14_Witness ==
    /\ pf.fn = "create" /\ pf.n = 2 /\ pf.value = U64Small(7)
    /\ pf.pc = "pass2" /\ pf.i = 1
    /\ pf.R[1] # pf.R[2]
    /\ Len(pf.e_0_hash.input) = 2
    /\ pf.s_1[1] # ScalarZero /\ pf.s_1[2] = ScalarZero

(* --------------------- C15: powers-of-three invariant ------------------- *)

\* mi_H and the mi2_H = mi_H + mi_H computed from it at the start of
\* iteration i are 3^i * H and 2 * 3^i * H.
PowerOfThree(mi_H, i) ==
    /\ mi_H = Mi(i)
    /\ PointAdd(mi_H, mi_H) = PointMul(ScalarMul(2, Pow3Scalar(i)), Hbase)
    /\ i = 0 => mi_H = Hbase

\* C15: at the start of iteration i of the verifier's loop and of both passes
\* of both provers, mi_H is 3^i * H and mi2_H = mi_H + mi_H is 2 * 3^i * H;
\* each pass starts from mi_H = H.
C15_PowersOfThree ==
    /\ pf.pc \in {"pass1", "pass2"} => PowerOfThree(pf.mi_H, pf.i)
    /\ vf.pc = "loop" => PowerOfThree(vf.mi_H, vf.i)

\* C15 witness: the second pass of create_vartime(2, .) is at i = 1 with
\* mi_H = 3H, after a first pass that left a C^1 other than the identity.
C15_Witness ==
    /\ pf.fn = "create_vartime" /\ pf.n = 2
    /\ pf.pc = "pass2" /\ pf.i = 1
    /\ pf.mi_H = PointMul(3, Hbase) /\ pf.mi_H # Hbase
    /\ pf.C[2] # Identity

(* -------------------------- C16: high digits ---------------------------- *)

\* base3_digits was applied to an x >= 1, in a call of a prover that has
\* returned (the digits are computed once, at the head of the call).
DigitsOfPositive ==
    ProverOnly /\ pf.pc = "returned" /\ pf.v # <<>> /\ pf.value # U64Zero

\* 3^0 .. 3^40
WidePowers3 == [i \in 0..(DIGITS - 1) |-> WidePow3(i)]

\* ceil(log_3 x) <= i, that is x <= 3^i
CeilLog3AtMost(x, i) == ~WideLess(WidePowers3[i], Widen(x))

\* floor(log_3 x) < i, that is x < 3^i
FloorLog3Below(x, i) == WideLess(Widen(x), WidePowers3[i])

\* C16 (as claimed): for every u64 x >= 1, base3_digits(x)[i] = 0 for every
\* index i with ceil(log_3 x) <= i < 41.
C16_HighDigitsZeroFromCeil ==
    DigitsOfPositive =>
        \A i \in 0..(DIGITS - 1) : CeilLog3AtMost(pf.value, i) => pf.v[i + 1] = 0

\* C16 (amended): for every u64 x >= 1, base3_digits(x)[i] = 0 for every
\* index i with floor(log_3 x) < i < 41 (that is, 3^i > x); when x = 3^i,
\* where i = ceil(log_3 x), the digit at i is 1.
C16_HighDigitsZero ==
    DigitsOfPositive =>
        \A i \in 0..(DIGITS - 1) :
            /\ FloorLog3Below(pf.value, i) => pf.v[i + 1] = 0
            /\ Widen(pf.value) = WidePowers3[i] => pf.v[i + 1] = 1

\* C16 witness: the digits of 3^10, where ceil(log_3 x) = floor(log_3 x) = 10:
\* digit 10 is 1 and the digits 11 .. 40 are zero.
C16_Witness ==
    /\ DigitsOfPositive
    /\ pf.value = U64Small(59049)
    /\ pf.v[11] = 1
    /\ \A j \in 12..DIGITS : pf.v[j] = 0

====
